---------------------------- MODULE Spec2Model ----------------------------
(***************************************************************************)
(* PaymentServiceControl (paymentservice/src/PaymentServiceControl.cpp):   *)
(* the adapter between bb::platform::PaymentManager and the application's  *)
(* UI.  Six request operations hand a request to the payment manager and   *)
(* connect the returned reply's finished() signal to a slot; the slot      *)
(* classifies the reply (isError), emits infoResponseError or the kind's   *)
(* success signal, and calls deleteLater() on the reply.                   *)
(*                                                                         *)
(* A QString is a TLA+ string, a QList a sequence, a reply object a record *)
(* of the sequence replies (its index is the object's identity), and an    *)
(* emitted signal a record appended to emitted.                            *)
(***************************************************************************)
EXTENDS Integers, Sequences, FiniteSets, TLC

VARIABLES
    replies,    \* the reply objects the payment manager has handed out, in order of issue
    emitted,    \* the signals PaymentServiceControl has emitted, in order
    lastCall,   \* the last public operation the caller invoked, with its arguments
    formatted   \* the receipt last handed to receiptToString and the text it returned

vars == <<replies, emitted, lastCall, formatted>>

---------------------------------------------------------------------------
(* Bounds of the model *)

\* Requests handed to the payment manager in one run.
MaxReplies == 2

\* Receipts in one existing-purchases reply.
MaxReceipts == 2

\* Signals emitted in one run in which a reply may signal finished() again.
MaxSignals == 3

---------------------------------------------------------------------------
(* QString and QDateTime *)

\* QString::isEmpty()
isEmpty(s) == Len(s) = 0

\* QString::number(int)
number(n) == ToString(n)

\* A QDateTime: null (default constructed), not null but invalid, or a valid
\* instant (secs after the epoch).
NullDateTime == [isNull |-> TRUE, isValid |-> FALSE, secs |-> 0]

InvalidDateTime == [isNull |-> FALSE, isValid |-> FALSE, secs |-> 0]

ValidDateTime(t) == [isNull |-> FALSE, isValid |-> TRUE, secs |-> t]

\* QDateTime::toString(): the empty string for a date that is not valid,
\* else the date's text.
toString(dt) ==
    IF dt.isValid THEN "Thu Jan 1 00:00:0" \o ToString(dt.secs) \o " 1970" ELSE ""

---------------------------------------------------------------------------
(* receiptToString *)

\* receiptToString with two of its lines changed over: the metadata comes
\* before the purchase id and license key.
receiptToString_MetadataFirst(r) ==
    LET initialPeriod == number(r.initialPeriod)
        startDate     == r.startDate
        startDateStr  == IF startDate.isNull THEN "N/A" ELSE toString(startDate)
        endDate       == r.endDate
        endDateStr    == IF endDate.isNull THEN "N/A" ELSE toString(endDate)
        isSubscr      == IF r.isSubscription THEN "true" ELSE "false"
        itemStateStr  == number(r.state)
        displayString ==
            "Date: " \o toString(r.date) \o
            "\nID/SKU: " \o r.digitalGoodId \o "/" \o r.digitalGoodSku \o
            "\nMetadata: " \o r.purchaseMetadata \o
            "\nPurchaseID/licenseKey: " \o r.purchaseId \o "/" \o r.licenseKey \o
            "\nItemState/isSubscription?: " \o itemStateStr \o "/" \o isSubscr \o
            "\nStart/End: " \o startDateStr \o "/" \o endDateStr \o
            "\nInitialPeriod: " \o initialPeriod \o "\n"
    IN  displayString

\* receiptToString testing isValid() where the code tests isNull(): a date
\* that is neither null nor valid is rendered "N/A".
receiptToString_IsValid(r) ==
    LET initialPeriod == number(r.initialPeriod)
        startDate     == r.startDate
        startDateStr  == IF ~startDate.isValid THEN "N/A" ELSE toString(startDate)
        endDate       == r.endDate
        endDateStr    == IF ~endDate.isValid THEN "N/A" ELSE toString(endDate)
        isSubscr      == IF r.isSubscription THEN "true" ELSE "false"
        itemStateStr  == number(r.state)
        displayString ==
            "Date: " \o toString(r.date) \o
            "\nID/SKU: " \o r.digitalGoodId \o "/" \o r.digitalGoodSku \o
            "\nPurchaseID/licenseKey: " \o r.purchaseId \o "/" \o r.licenseKey \o
            "\nMetadata: " \o r.purchaseMetadata \o
            "\nItemState/isSubscription?: " \o itemStateStr \o "/" \o isSubscr \o
            "\nStart/End: " \o startDateStr \o "/" \o endDateStr \o
            "\nInitialPeriod: " \o initialPeriod \o "\n"
    IN  displayString

receiptToString(r) ==
    LET initialPeriod == number(r.initialPeriod)
        startDate     == r.startDate
        startDateStr  == IF startDate.isNull THEN "N/A" ELSE toString(startDate)
        endDate       == r.endDate
        endDateStr    == IF endDate.isNull THEN "N/A" ELSE toString(endDate)
        isSubscr      == IF r.isSubscription THEN "true" ELSE "false"
        itemStateStr  == number(r.state)
        displayString ==
            "Date: " \o toString(r.date) \o
            "\nID/SKU: " \o r.digitalGoodId \o "/" \o r.digitalGoodSku \o
            "\nPurchaseID/licenseKey: " \o r.purchaseId \o "/" \o r.licenseKey \o
            "\nMetadata: " \o r.purchaseMetadata \o
            "\nItemState/isSubscription?: " \o itemStateStr \o "/" \o isSubscr \o
            "\nStart/End: " \o startDateStr \o "/" \o endDateStr \o
            "\nInitialPeriod: " \o initialPeriod \o "\n"
    IN  displayString


---------------------------------------------------------------------------
(* The values the caller and the payment service supply *)

Ids == {"", "item1"}

Skus == {"sku1"}

Names == {"Item One"}

Metadatas == {"", "{}"}

PurchaseIds == {"", "purchase1"}

\* A bb::platform::PurchaseReceipt.
Receipt(date, sku, subscr, start, end, period) ==
    [date |-> date, digitalGoodId |-> "item1", digitalGoodSku |-> sku,
     purchaseId |-> "purchase1", licenseKey |-> "", purchaseMetadata |-> "{}",
     state |-> IF subscr THEN 1 ELSE 0, isSubscription |-> subscr,
     startDate |-> start, endDate |-> end, initialPeriod |-> period]

\* The receipts the payment service answers with: a one-time purchase with no
\* start and end date, and a subscription with both.
Receipts ==
    { Receipt(ValidDateTime(1), "sku1", FALSE, NullDateTime, NullDateTime, 0),
      Receipt(ValidDateTime(2), "", TRUE, ValidDateTime(2), ValidDateTime(3), 30) }

\* A default constructed PurchaseReceipt, as an errored reply holds.
NoReceipt ==
    [date |-> NullDateTime, digitalGoodId |-> "", digitalGoodSku |-> "",
     purchaseId |-> "", licenseKey |-> "", purchaseMetadata |-> "",
     state |-> 0, isSubscription |-> FALSE,
     startDate |-> NullDateTime, endDate |-> NullDateTime, initialPeriod |-> 0]

\* The QList<PurchaseReceipt> values of at most n receipts.
ReceiptLists(n) == UNION { [1..k -> Receipts] : k \in 0..n }

\* The errors (code, text) the payment service reports.
Errors ==
    { [code |-> 1, text |-> "User canceled"],
      [code |-> 2, text |-> "Network failure"] }

Prices == {"$0.99", "$1.99"}

Kinds ==
    {"purchase", "existingPurchases", "price", "subscriptionTerms",
     "subscriptionStatus", "cancelSubscription"}

\* The payload a reply of each kind holds once it finished without error.
Payloads(kind) ==
    CASE kind = "purchase" -> { [receipt |-> r] : r \in Receipts }
      [] kind = "existingPurchases" ->
            { [purchases |-> l] : l \in ReceiptLists(MaxReceipts) }
      [] kind = "price" -> { [price |-> p] : p \in Prices }
      [] kind = "subscriptionTerms" ->
            { [price |-> p, initialPeriod |-> 7,
               renewalPrice |-> q, renewalPeriod |-> 30] : p \in {"$0.99"}, q \in Prices }
      [] kind = "subscriptionStatus" -> { [isActive |-> b] : b \in BOOLEAN }
      [] kind = "cancelSubscription" -> { [isCanceled |-> b] : b \in BOOLEAN }

\* The payload an errored reply of each kind holds: default constructed values.
NoPayload(kind) ==
    CASE kind = "purchase" -> [receipt |-> NoReceipt]
      [] kind = "existingPurchases" -> [purchases |-> <<>>]
      [] kind = "price" -> [price |-> ""]
      [] kind = "subscriptionTerms" ->
            [price |-> "", initialPeriod |-> 0, renewalPrice |-> "", renewalPeriod |-> 0]
      [] kind = "subscriptionStatus" -> [isActive |-> FALSE]
      [] kind = "cancelSubscription" -> [isCanceled |-> FALSE]

\* What the payment service may complete a request of a kind with: an error
\* (code, text), or the kind's payload.
Results(kind) ==
    { [isError |-> TRUE, errorCode |-> e.code, errorText |-> e.text,
       value |-> NoPayload(kind)] : e \in Errors }
    \cup
    { [isError |-> FALSE, errorCode |-> 0, errorText |-> "", value |-> v] :
          v \in Payloads(kind) }

---------------------------------------------------------------------------
(* Reply objects, connections and signals *)

\* The reply a PaymentManager::request... call returns: not finished, no slot
\* connected to finished().
NewReply(kind, request) ==
    [kind |-> kind, request |-> request, slot |-> "",
     finished |-> FALSE, signalled |-> FALSE,
     result |-> [isError |-> FALSE, errorCode |-> 0, errorText |-> "",
                 value |-> NoPayload(kind)],
     deleteLater |-> FALSE, deleted |-> FALSE]

\* connect(reply, SIGNAL(finished()), SLOT(slot))
connect(reply, slot) == [reply EXCEPT !.slot = slot]

\* QObject::deleteLater(): the deletion is posted to the event loop.
deleteLater(reply) == [reply EXCEPT !.deleteLater = TRUE]

\* The finished() emission a slot was invoked for is consumed.
delivered(reply) == [reply EXCEPT !.signalled = FALSE]

\* sender() of a slot invocation: finished() of reply h was emitted and is
\* connected to the slot.
sender(h, slot) ==
    /\ h \in DOMAIN replies
    /\ replies[h].signalled
    /\ replies[h].slot = slot
    /\ ~replies[h].deleted

\* qobject_cast<Reply*>(sender()): the reply when it is of the kind, else NULL (0).
qobject_cast(kind, h) == IF replies[h].kind = kind THEN h ELSE 0

\* emit signal(args), raised while handling reply h; args names the signal's
\* arguments.
emit(h, signal, args) ==
    emitted' = Append(emitted, [reply |-> h, signal |-> signal, args |-> args])

\* The caller's call, as the caller made it.
Call(op, args) == lastCall' = [op |-> op, args |-> args]

---------------------------------------------------------------------------
(* The request operations *)

\* purchase without its check of id: an empty id is handed to the payment
\* service like any other.
purchase_NoEmptyCheck(id, sku, name, metadata) ==
    /\ Call("purchase", [id |-> id, sku |-> sku, name |-> name, metadata |-> metadata])
    /\ LET reply == NewReply("purchase",
                             [id |-> id, sku |-> sku, name |-> name, metadata |-> metadata])
       IN  /\ Len(replies) < MaxReplies
           /\ replies' = Append(replies, connect(reply, "purchaseResponse"))
           /\ UNCHANGED emitted
    /\ UNCHANGED formatted

\* PaymentServiceControl::purchase(id, sku, name, metadata)
purchase(id, sku, name, metadata) ==
    /\ Call("purchase", [id |-> id, sku |-> sku, name |-> name, metadata |-> metadata])
    /\ IF isEmpty(id)
       THEN UNCHANGED <<replies, emitted>>
       ELSE LET reply == NewReply("purchase",
                                 [id |-> id, sku |-> sku, name |-> name, metadata |-> metadata])
            IN  /\ Len(replies) < MaxReplies
                /\ replies' = Append(replies, connect(reply, "purchaseResponse"))
                /\ UNCHANGED emitted
    /\ UNCHANGED formatted

\* getExisting making its request only when asked to refresh: with
\* refresh = false it returns without a request.
getExisting_RefreshOnly(refresh) ==
    /\ Call("getExisting", [refresh |-> refresh])
    /\ IF ~refresh
       THEN UNCHANGED <<replies, emitted>>
       ELSE LET reply == NewReply("existingPurchases", [refresh |-> refresh])
            IN  /\ Len(replies) < MaxReplies
                /\ replies' = Append(replies, connect(reply, "existingPurchasesResponse"))
                /\ UNCHANGED emitted
    /\ UNCHANGED formatted

\* PaymentServiceControl::getExisting(refresh)
getExisting(refresh) ==
    /\ Call("getExisting", [refresh |-> refresh])
    /\ LET reply == NewReply("existingPurchases", [refresh |-> refresh])
       IN  /\ Len(replies) < MaxReplies
           /\ replies' = Append(replies, connect(reply, "existingPurchasesResponse"))
           /\ UNCHANGED emitted
    /\ UNCHANGED formatted

\* getPrice raising a notification itself: it makes the request, connects the
\* slot and emits priceResponseSuccess with an empty price before it returns.
getPrice_EmitsOnIssue(id, sku) ==
    /\ Call("getPrice", [id |-> id, sku |-> sku])
    /\ IF isEmpty(id)
       THEN UNCHANGED <<replies, emitted>>
       ELSE LET reply == NewReply("price", [id |-> id, sku |-> sku])
            IN  /\ Len(replies) < MaxReplies
                /\ replies' = Append(replies, connect(reply, "priceResponse"))
                /\ emit(Len(replies) + 1, "priceResponseSuccess", [price |-> ""])
    /\ UNCHANGED formatted

\* getPrice without its connect: the request is made and finished() of its
\* reply reaches no slot.
getPrice_NoConnect(id, sku) ==
    /\ Call("getPrice", [id |-> id, sku |-> sku])
    /\ IF isEmpty(id)
       THEN UNCHANGED <<replies, emitted>>
       ELSE LET reply == NewReply("price", [id |-> id, sku |-> sku])
            IN  /\ Len(replies) < MaxReplies
                /\ replies' = Append(replies, reply)
                /\ UNCHANGED emitted
    /\ UNCHANGED formatted

\* PaymentServiceControl::getPrice(id, sku)
getPrice(id, sku) ==
    /\ Call("getPrice", [id |-> id, sku |-> sku])
    /\ IF isEmpty(id)
       THEN UNCHANGED <<replies, emitted>>
       ELSE LET reply == NewReply("price", [id |-> id, sku |-> sku])
            IN  /\ Len(replies) < MaxReplies
                /\ replies' = Append(replies, connect(reply, "priceResponse"))
                /\ UNCHANGED emitted
    /\ UNCHANGED formatted

\* PaymentServiceControl::getSubscriptionTerms(id, sku)
getSubscriptionTerms(id, sku) ==
    /\ Call("getSubscriptionTerms", [id |-> id, sku |-> sku])
    /\ IF isEmpty(id)
       THEN UNCHANGED <<replies, emitted>>
       ELSE LET reply == NewReply("subscriptionTerms", [id |-> id, sku |-> sku])
            IN  /\ Len(replies) < MaxReplies
                /\ replies' = Append(replies, connect(reply, "subscriptionTermsResponse"))
                /\ UNCHANGED emitted
    /\ UNCHANGED formatted

\* PaymentServiceControl::checkSubscriptionStatus(id, sku)
checkSubscriptionStatus(id, sku) ==
    /\ Call("checkSubscriptionStatus", [id |-> id, sku |-> sku])
    /\ IF isEmpty(id)
       THEN UNCHANGED <<replies, emitted>>
       ELSE LET reply == NewReply("subscriptionStatus", [id |-> id, sku |-> sku])
            IN  /\ Len(replies) < MaxReplies
                /\ replies' = Append(replies, connect(reply, "subscriptionStatusResponse"))
                /\ UNCHANGED emitted
    /\ UNCHANGED formatted

\* PaymentServiceControl::cancelSubscription(purchaseId)
cancelSubscription(purchaseId) ==
    /\ Call("cancelSubscription", [purchaseId |-> purchaseId])
    /\ IF isEmpty(purchaseId)
       THEN UNCHANGED <<replies, emitted>>
       ELSE LET reply == NewReply("cancelSubscription", [purchaseId |-> purchaseId])
            IN  /\ Len(replies) < MaxReplies
                /\ replies' = Append(replies, connect(reply, "cancelSubscriptionResponse"))
                /\ UNCHANGED emitted
    /\ UNCHANGED formatted

---------------------------------------------------------------------------
(* The payment service and the event loop *)

\* The payment service completes request h with a result: the reply is
\* finished and emits finished() to the slot connected to it.  A reply
\* finishes once (~finished): that is the payment service's contract, which
\* the code relies on and does not check.
providerFinished(h, result) ==
    /\ h \in DOMAIN replies
    /\ ~replies[h].finished
    /\ ~replies[h].deleted
    /\ result \in Results(replies[h].kind)
    /\ replies' = [replies EXCEPT ![h].finished = TRUE,
                                  ![h].result = result,
                                  ![h].signalled = (replies[h].slot # "")]
    /\ UNCHANGED <<emitted, lastCall, formatted>>

\* The event loop handles the deferred delete deleteLater() posted: the reply
\* object is destroyed and its connections with it.
deferredDelete(h) ==
    /\ h \in DOMAIN replies
    /\ replies[h].deleteLater
    /\ ~replies[h].deleted
    /\ replies' = [replies EXCEPT ![h].deleted = TRUE,
                                  ![h].slot = "",
                                  ![h].signalled = FALSE]
    /\ UNCHANGED <<emitted, lastCall, formatted>>

\* PaymentReply::isError(), errorCode(), errorText() and the kind's accessors.
isError(h) == replies[h].result.isError

errorCode(h) == replies[h].result.errorCode

errorText(h) == replies[h].result.errorText

value(h) == replies[h].result.value

---------------------------------------------------------------------------
(* The slots *)

\* purchaseResponse classifying by the reply of the latest request, as if
\* the reply were kept in a member, instead of by sender().
purchaseResponse_LatestReply(h) ==
    /\ sender(h, "purchaseResponse")
    /\ LET reply  == qobject_cast("purchase", h)
           latest == Len(replies)
       IN  /\ reply # 0
           /\ IF isError(latest)
              THEN emit(reply, "infoResponseError",
                        [code |-> errorCode(latest), text |-> errorText(latest)])
              ELSE LET displayString == receiptToString(value(reply).receipt)
                   IN  emit(reply, "purchaseResponseSuccess", [text |-> displayString])
           /\ replies' = [replies EXCEPT ![reply] = deleteLater(delivered(@))]
    /\ UNCHANGED <<lastCall, formatted>>

\* PaymentServiceControl::purchaseResponse()
purchaseResponse(h) ==
    /\ sender(h, "purchaseResponse")
    /\ LET reply == qobject_cast("purchase", h)
       IN  /\ reply # 0
           /\ IF isError(reply)
              THEN emit(reply, "infoResponseError", [code |-> errorCode(reply), text |-> errorText(reply)])
              ELSE LET displayString == receiptToString(value(reply).receipt)
                   IN  emit(reply, "purchaseResponseSuccess", [text |-> displayString])
           /\ replies' = [replies EXCEPT ![reply] = deleteLater(delivered(@))]
    /\ UNCHANGED <<lastCall, formatted>>

\* The loop putting the line break between the receipts instead of after
\* each: the last receipt is not followed by one.
RECURSIVE appendReceipts_Separated(_, _)
appendReceipts_Separated(displayString, receipts) ==
    IF receipts = <<>>
    THEN displayString
    ELSE appendReceipts_Separated(
             displayString \o (IF displayString = "" THEN "" ELSE "\n")
                           \o receiptToString(Head(receipts)),
             Tail(receipts))

\* The loop putting each receipt in front of what it has so far: the receipts
\* come out last first.
RECURSIVE appendReceipts_Prepend(_, _)
appendReceipts_Prepend(displayString, receipts) ==
    IF receipts = <<>>
    THEN displayString
    ELSE appendReceipts_Prepend((receiptToString(Head(receipts)) \o "\n") \o displayString,
                                Tail(receipts))

\* The Q_FOREACH loop of existingPurchasesResponse: displayString after the
\* receipts were appended to it, in list order.
RECURSIVE appendReceipts(_, _)
appendReceipts(displayString, receipts) ==
    IF receipts = <<>>
    THEN displayString
    ELSE appendReceipts(displayString \o (receiptToString(Head(receipts)) \o "\n"),
                        Tail(receipts))

\* existingPurchasesResponse without its receipts.isEmpty() case: an empty
\* list goes through the loop and comes out as the empty string.
existingPurchasesResponse_NoEmptyCase(h) ==
    /\ sender(h, "existingPurchasesResponse")
    /\ LET reply == qobject_cast("existingPurchases", h)
       IN  /\ reply # 0
           /\ IF isError(reply)
              THEN emit(reply, "infoResponseError",
                        [code |-> errorCode(reply), text |-> errorText(reply)])
              ELSE LET receipts == value(reply).purchases
                       displayString == appendReceipts("", receipts)
                   IN  emit(reply, "existingPurchasesResponseSuccess",
                            [text |-> displayString])
           /\ replies' = [replies EXCEPT ![reply] = deleteLater(delivered(@))]
    /\ UNCHANGED <<lastCall, formatted>>

\* PaymentServiceControl::existingPurchasesResponse()
existingPurchasesResponse(h) ==
    /\ sender(h, "existingPurchasesResponse")
    /\ LET reply == qobject_cast("existingPurchases", h)
       IN  /\ reply # 0
           /\ IF isError(reply)
              THEN emit(reply, "infoResponseError", [code |-> errorCode(reply), text |-> errorText(reply)])
              ELSE LET receipts == value(reply).purchases
                   IN  IF receipts = <<>>
                       THEN emit(reply, "existingPurchasesResponseSuccess",
                                 [text |-> "(No purchases)"])
                       ELSE LET displayString == appendReceipts("", receipts)
                            IN  emit(reply, "existingPurchasesResponseSuccess",
                                     [text |-> displayString])
           /\ replies' = [replies EXCEPT ![reply] = deleteLater(delivered(@))]
    /\ UNCHANGED <<lastCall, formatted>>

\* priceResponse with the else of its if (reply->isError()) lost: an errored
\* reply raises the error signal and the success signal.
priceResponse_NoElse(h) ==
    /\ sender(h, "priceResponse")
    /\ LET reply == qobject_cast("price", h)
       IN  /\ reply # 0
           /\ emitted' =
                 (IF isError(reply)
                  THEN Append(emitted,
                              [reply |-> reply, signal |-> "infoResponseError",
                               args |-> [code |-> errorCode(reply),
                                         text |-> errorText(reply)]])
                  ELSE emitted)
                 \o <<[reply |-> reply, signal |-> "priceResponseSuccess",
                       args |-> [price |-> value(reply).price]]>>
           /\ replies' = [replies EXCEPT ![reply] = deleteLater(delivered(@))]
    /\ UNCHANGED <<lastCall, formatted>>

\* PaymentServiceControl::priceResponse()
priceResponse(h) ==
    /\ sender(h, "priceResponse")
    /\ LET reply == qobject_cast("price", h)
       IN  /\ reply # 0
           /\ IF isError(reply)
              THEN emit(reply, "infoResponseError", [code |-> errorCode(reply), text |-> errorText(reply)])
              ELSE emit(reply, "priceResponseSuccess", [price |-> value(reply).price])
           /\ replies' = [replies EXCEPT ![reply] = deleteLater(delivered(@))]
    /\ UNCHANGED <<lastCall, formatted>>

\* subscriptionTermsResponse retrying on error: it reports the error and
\* makes the request again, with the parameters of the failed one.
subscriptionTermsResponse_Retry(h) ==
    /\ sender(h, "subscriptionTermsResponse")
    /\ LET reply == qobject_cast("subscriptionTerms", h)
       IN  /\ reply # 0
           /\ IF isError(reply)
              THEN /\ emit(reply, "infoResponseError",
                           [code |-> errorCode(reply), text |-> errorText(reply)])
                   /\ Len(replies) < MaxReplies
                   /\ replies' =
                        Append([replies EXCEPT ![reply] = deleteLater(delivered(@))],
                               connect(NewReply("subscriptionTerms", replies[reply].request),
                                       "subscriptionTermsResponse"))
              ELSE /\ emit(reply, "subscriptionTermsResponseSuccess",
                           [price |-> value(reply).price,
                            initialPeriod |-> value(reply).initialPeriod,
                            renewalPrice |-> value(reply).renewalPrice,
                            renewalPeriod |-> value(reply).renewalPeriod])
                   /\ replies' = [replies EXCEPT ![reply] = deleteLater(delivered(@))]
    /\ UNCHANGED <<lastCall, formatted>>

\* subscriptionTermsResponse passing the renewal price where the price goes
\* and the price where the renewal price goes.
subscriptionTermsResponse_Swapped(h) ==
    /\ sender(h, "subscriptionTermsResponse")
    /\ LET reply == qobject_cast("subscriptionTerms", h)
       IN  /\ reply # 0
           /\ IF isError(reply)
              THEN emit(reply, "infoResponseError",
                        [code |-> errorCode(reply), text |-> errorText(reply)])
              ELSE emit(reply, "subscriptionTermsResponseSuccess",
                        [price |-> value(reply).renewalPrice,
                         initialPeriod |-> value(reply).initialPeriod,
                         renewalPrice |-> value(reply).price,
                         renewalPeriod |-> value(reply).renewalPeriod])
           /\ replies' = [replies EXCEPT ![reply] = deleteLater(delivered(@))]
    /\ UNCHANGED <<lastCall, formatted>>

\* PaymentServiceControl::subscriptionTermsResponse()
subscriptionTermsResponse(h) ==
    /\ sender(h, "subscriptionTermsResponse")
    /\ LET reply == qobject_cast("subscriptionTerms", h)
       IN  /\ reply # 0
           /\ IF isError(reply)
              THEN emit(reply, "infoResponseError", [code |-> errorCode(reply), text |-> errorText(reply)])
              ELSE emit(reply, "subscriptionTermsResponseSuccess",
                        [price |-> value(reply).price,
                         initialPeriod |-> value(reply).initialPeriod,
                         renewalPrice |-> value(reply).renewalPrice,
                         renewalPeriod |-> value(reply).renewalPeriod])
           /\ replies' = [replies EXCEPT ![reply] = deleteLater(delivered(@))]
    /\ UNCHANGED <<lastCall, formatted>>

\* subscriptionStatusResponse emitting its success on the signal of the
\* subscription terms, as a slot copied from subscriptionTermsResponse would.
subscriptionStatusResponse_OtherChannel(h) ==
    /\ sender(h, "subscriptionStatusResponse")
    /\ LET reply == qobject_cast("subscriptionStatus", h)
       IN  /\ reply # 0
           /\ IF isError(reply)
              THEN emit(reply, "infoResponseError",
                        [code |-> errorCode(reply), text |-> errorText(reply)])
              ELSE emit(reply, "subscriptionTermsResponseSuccess",
                        [isActive |-> value(reply).isActive])
           /\ replies' = [replies EXCEPT ![reply] = deleteLater(delivered(@))]
    /\ UNCHANGED <<lastCall, formatted>>

\* subscriptionStatusResponse returning from its error branch: the errored
\* reply is never handed to deleteLater().
subscriptionStatusResponse_ErrorReturns(h) ==
    /\ sender(h, "subscriptionStatusResponse")
    /\ LET reply == qobject_cast("subscriptionStatus", h)
       IN  /\ reply # 0
           /\ IF isError(reply)
              THEN /\ emit(reply, "infoResponseError",
                           [code |-> errorCode(reply), text |-> errorText(reply)])
                   /\ replies' = [replies EXCEPT ![reply] = delivered(@)]
              ELSE /\ emit(reply, "checkStatusResponseSuccess",
                           [isActive |-> value(reply).isActive])
                   /\ replies' = [replies EXCEPT ![reply] = deleteLater(delivered(@))]
    /\ UNCHANGED <<lastCall, formatted>>

\* PaymentServiceControl::subscriptionStatusResponse()
subscriptionStatusResponse(h) ==
    /\ sender(h, "subscriptionStatusResponse")
    /\ LET reply == qobject_cast("subscriptionStatus", h)
       IN  /\ reply # 0
           /\ IF isError(reply)
              THEN emit(reply, "infoResponseError", [code |-> errorCode(reply), text |-> errorText(reply)])
              ELSE emit(reply, "checkStatusResponseSuccess", [isActive |-> value(reply).isActive])
           /\ replies' = [replies EXCEPT ![reply] = deleteLater(delivered(@))]
    /\ UNCHANGED <<lastCall, formatted>>

\* cancelSubscriptionResponse reporting the error's code without its text.
cancelSubscriptionResponse_NoText(h) ==
    /\ sender(h, "cancelSubscriptionResponse")
    /\ LET reply == qobject_cast("cancelSubscription", h)
       IN  /\ reply # 0
           /\ IF isError(reply)
              THEN emit(reply, "infoResponseError", [code |-> errorCode(reply), text |-> ""])
              ELSE emit(reply, "cancelSubscriptionResponseSuccess",
                        [isCanceled |-> value(reply).isCanceled])
           /\ replies' = [replies EXCEPT ![reply] = deleteLater(delivered(@))]
    /\ UNCHANGED <<lastCall, formatted>>

\* PaymentServiceControl::cancelSubscriptionResponse()
cancelSubscriptionResponse(h) ==
    /\ sender(h, "cancelSubscriptionResponse")
    /\ LET reply == qobject_cast("cancelSubscription", h)
       IN  /\ reply # 0
           /\ IF isError(reply)
              THEN emit(reply, "infoResponseError", [code |-> errorCode(reply), text |-> errorText(reply)])
              ELSE emit(reply, "cancelSubscriptionResponseSuccess",
                        [isCanceled |-> value(reply).isCanceled])
           /\ replies' = [replies EXCEPT ![reply] = deleteLater(delivered(@))]
    /\ UNCHANGED <<lastCall, formatted>>

---------------------------------------------------------------------------
(* The specification *)

NotFormatted == [receipt |-> NoReceipt, text |-> "", done |-> FALSE]

\* PaymentServiceControl after its constructor: no request made.
Init ==
    /\ replies = <<>>
    /\ emitted = <<>>
    /\ lastCall = [op |-> "", args |-> [none |-> TRUE]]
    /\ formatted = NotFormatted

Handles == 1..MaxReplies

Next ==
    \/ \E id \in Ids, sku \in Skus, name \in Names, metadata \in Metadatas :
           purchase(id, sku, name, metadata)
    \/ \E refresh \in BOOLEAN : getExisting(refresh)
    \/ \E id \in Ids, sku \in Skus : getPrice(id, sku)
    \/ \E id \in Ids, sku \in Skus : getSubscriptionTerms(id, sku)
    \/ \E id \in Ids, sku \in Skus : checkSubscriptionStatus(id, sku)
    \/ \E purchaseId \in PurchaseIds : cancelSubscription(purchaseId)
    \/ \E h \in DOMAIN replies : \E result \in Results(replies[h].kind) :
           providerFinished(h, result)
    \/ \E h \in Handles : purchaseResponse(h)
    \/ \E h \in Handles : existingPurchasesResponse(h)
    \/ \E h \in Handles : priceResponse(h)
    \/ \E h \in Handles : subscriptionTermsResponse(h)
    \/ \E h \in Handles : subscriptionStatusResponse(h)
    \/ \E h \in Handles : cancelSubscriptionResponse(h)
    \/ \E h \in Handles : deferredDelete(h)

Spec == Init /\ [][Next]_vars

---------------------------------------------------------------------------
(* receiptToString on its own *)

\* The dates a receipt may carry: none, one that is not valid, and two instants.
DateTimes == {NullDateTime, InvalidDateTime, ValidDateTime(2), ValidDateTime(3)}

\* The receipts receiptToString is applied to.
FormatReceipts ==
    { Receipt(date, sku, subscr, start, end, period) :
          date \in {NullDateTime, ValidDateTime(1)}, sku \in {"", "sku1"},
          subscr \in BOOLEAN, start \in DateTimes, end \in DateTimes,
          period \in {0, 30} }

\* A receipt is at hand, not formatted yet.
InitFormat ==
    /\ replies = <<>>
    /\ emitted = <<>>
    /\ lastCall = [op |-> "", args |-> [none |-> TRUE]]
    /\ formatted \in { [receipt |-> r, text |-> "", done |-> FALSE] : r \in FormatReceipts }

\* displayString = receiptToString(receipt)
format ==
    /\ ~formatted.done
    /\ formatted' = [formatted EXCEPT !.text = receiptToString(formatted.receipt),
                                      !.done = TRUE]
    /\ UNCHANGED <<replies, emitted, lastCall>>

NextFormat == format

SpecFormat == InitFormat /\ [][NextFormat]_vars

---------------------------------------------------------------------------
(* The platform's scheduling *)

\* Some slot is invoked for reply h.
Response(h) ==
    \/ purchaseResponse(h)
    \/ existingPurchasesResponse(h)
    \/ priceResponse(h)
    \/ subscriptionTermsResponse(h)
    \/ subscriptionStatusResponse(h)
    \/ cancelSubscriptionResponse(h)

\* The payment service completes request h, with whatever result.
Completion(h) == \E result \in Results(replies[h].kind) : providerFinished(h, result)

\* The run under the scheduling the platform gives: the payment service
\* completes every request handed to it, and the event loop runs every slot
\* invocation and every deferred delete posted to it.
FairSpec ==
    /\ Spec
    /\ \A h \in Handles : WF_vars(h \in DOMAIN replies /\ Completion(h))
    /\ \A h \in Handles : WF_vars(Response(h))
    /\ \A h \in Handles : WF_vars(deferredDelete(h))

\* The signals emitted while handling reply h.
SignalsOf(h) == SelectSeq(emitted, LAMBDA e : e.reply = h)

---------------------------------------------------------------------------
(* A reply that signals finished() again *)

\* Reply h, whose finished() has been emitted and handled, emits finished()
\* again.  No slot disconnects the reply: the connection made by the request
\* operation stays until the event loop destroys the object, so up to then
\* the emission reaches the slot as the first one did.
finishedAgain(h) ==
    /\ h \in DOMAIN replies
    /\ replies[h].finished
    /\ ~replies[h].signalled
    /\ ~replies[h].deleted
    /\ Len(emitted) < MaxSignals
    /\ replies' = [replies EXCEPT ![h].signalled = (replies[h].slot # "")]
    /\ UNCHANGED <<emitted, lastCall, formatted>>

NextResignal ==
    \/ Next
    \/ \E h \in Handles : finishedAgain(h)

\* The adapter with a payment service whose replies may signal more than once.
SpecResignal == Init /\ [][NextResignal]_vars

---------------------------------------------------------------------------
(* Claims *)

\* The slot invocation for reply h has run: the reply finished and its
\* finished() emission was delivered.
Handled(h) == replies[h].finished /\ ~replies[h].signalled

\* C1: every request issued to the payment service raises exactly one
\* notification: none while its completion has not been handled, one (an
\* infoResponseError or a success signal) from then on, never two; and no
\* notification is raised for anything but an issued request.
C1_ExactlyOneNotification ==
    /\ \A i \in DOMAIN emitted : emitted[i].reply \in DOMAIN replies
    /\ \A h \in DOMAIN replies :
           Len(SignalsOf(h)) = IF Handled(h) THEN 1 ELSE 0

\* Two requests were issued and handled, one with an error and one with
\* success, and each raised its one notification.
C1_Witness ==
    /\ Len(replies) = 2
    /\ Handled(1) /\ Handled(2)
    /\ Len(emitted) = 2
    /\ emitted[1].signal = "infoResponseError"
    /\ emitted[2].signal # "infoResponseError"

\* The call is one the operation drops: purchase, getPrice,
\* getSubscriptionTerms or checkSubscriptionStatus with an empty id, or
\* cancelSubscription with an empty purchaseId.
EmptyIdCall(call) ==
    \/ /\ call.op \in {"purchase", "getPrice", "getSubscriptionTerms",
                       "checkSubscriptionStatus"}
       /\ call.args.id = ""
    \/ /\ call.op = "cancelSubscription"
       /\ call.args.purchaseId = ""

\* C2: a call with an empty identifying parameter, whatever its other
\* parameters, hands no request to the payment service, connects no slot and
\* emits no signal: replies and emitted are as they were before the call.
C2_EmptyIdIsNoOp ==
    [][(lastCall' # lastCall /\ EmptyIdCall(lastCall'))
           => (replies' = replies /\ emitted' = emitted)]_vars

\* purchase("", "sku1", "Item One", "{}") was called while a request was in
\* flight, and only that request exists, with no signal emitted.
C2_Witness ==
    /\ lastCall.op = "purchase"
    /\ lastCall.args = [id |-> "", sku |-> "sku1", name |-> "Item One", metadata |-> "{}"]
    /\ Len(replies) = 1
    /\ replies[1].kind = "price"
    /\ emitted = <<>>

\* C3: a reply of any kind that finished with the error flag set raises
\* infoResponseError with exactly the reply's error code and error text, and
\* nothing else.
C3_ErrorVerbatim ==
    \A h \in DOMAIN replies :
        (Handled(h) /\ isError(h)) =>
            /\ Len(SignalsOf(h)) = 1
            /\ SignalsOf(h)[1].signal = "infoResponseError"
            /\ SignalsOf(h)[1].args = [code |-> errorCode(h), text |-> errorText(h)]

\* Two requests of different kinds failed with different errors, and each
\* error was raised with its own code and text.
C3_Witness ==
    /\ Len(emitted) = 2
    /\ replies[emitted[1].reply].kind = "cancelSubscription"
    /\ replies[emitted[2].reply].kind = "existingPurchases"
    /\ emitted[1].signal = "infoResponseError"
    /\ emitted[1].args = [code |-> 2, text |-> "Network failure"]
    /\ emitted[2].signal = "infoResponseError"
    /\ emitted[2].args = [code |-> 1, text |-> "User canceled"]

\* The kind of request each operation makes.
KindOf(op) ==
    CASE op = "purchase" -> "purchase"
      [] op = "getExisting" -> "existingPurchases"
      [] op = "getPrice" -> "price"
      [] op = "getSubscriptionTerms" -> "subscriptionTerms"
      [] op = "checkSubscriptionStatus" -> "subscriptionStatus"
      [] op = "cancelSubscription" -> "cancelSubscription"
      [] OTHER -> ""

\* A notification was raised for the caller's call: a signal of a reply of the
\* call's kind, made with the call's arguments.
Resolved(call) ==
    \E i \in DOMAIN emitted :
        /\ replies[emitted[i].reply].kind = KindOf(call.op)
        /\ replies[emitted[i].reply].request = call.args

\* The calls the caller can make.
Calls ==
    { [op |-> "purchase",
       args |-> [id |-> id, sku |-> sku, name |-> name, metadata |-> metadata]] :
          id \in Ids, sku \in Skus, name \in Names, metadata \in Metadatas }
    \cup { [op |-> "getExisting", args |-> [refresh |-> refresh]] : refresh \in BOOLEAN }
    \cup { [op |-> op, args |-> [id |-> id, sku |-> sku]] :
             op \in {"getPrice", "getSubscriptionTerms", "checkSubscriptionStatus"},
             id \in Ids, sku \in Skus }
    \cup { [op |-> "cancelSubscription", args |-> [purchaseId |-> purchaseId]] :
             purchaseId \in PurchaseIds }

\* C4 as stated: every call of any of the six operations is eventually
\* followed by a notification for it.
C4_EveryCallResolved ==
    \A call \in Calls : (lastCall = call) ~> Resolved(call)

\* C4, amended: every request handed to the payment service (every call that
\* passed its empty-parameter check, and every getExisting) eventually has its
\* one notification raised, given that the payment service completes it.
C4_IssuedEventuallyResolved ==
    \A h \in Handles : (h \in DOMAIN replies) ~> (Len(SignalsOf(h)) = 1)

\* Two requests were issued and both were resolved.
C4_Witness ==
    /\ Len(replies) = 2
    /\ Len(SignalsOf(1)) = 1
    /\ Len(SignalsOf(2)) = 1
    /\ replies[1].kind = "subscriptionStatus"
    /\ replies[2].kind = "purchase"

\* C5: an existing-purchases reply that finished without error and with an
\* empty receipt list raises existingPurchasesResponseSuccess with exactly
\* the text "(No purchases)".
C5_NoPurchasesLiteral ==
    \A h \in DOMAIN replies :
        (/\ Handled(h)
         /\ replies[h].kind = "existingPurchases"
         /\ ~isError(h)
         /\ Len(value(h).purchases) = 0) =>
            /\ Len(SignalsOf(h)) = 1
            /\ SignalsOf(h)[1].signal = "existingPurchasesResponseSuccess"
            /\ SignalsOf(h)[1].args = [text |-> "(No purchases)"]

\* getExisting(TRUE) was answered with an empty list and the notification
\* was raised.
C5_Witness ==
    /\ Len(replies) >= 1
    /\ replies[1].kind = "existingPurchases"
    /\ replies[1].request.refresh
    /\ Handled(1)
    /\ ~isError(1)
    /\ value(1).purchases = <<>>
    /\ Len(emitted) = 1

\* The positions of the line breaks of a text.
LineBreaks(text) == { i \in 1..Len(text) : SubSeq(text, i, i) = "\n" }

\* The positions where the lines of a text start: the first, and after every
\* line break (a text that ends with a line break has an empty last line).
LineStarts(text) == {1} \cup { i + 1 : i \in LineBreaks(text) }

\* The line that starts at position s: up to the next line break or the end.
LineAt(text, s) ==
    LET ends == { e \in LineBreaks(text) \cup {Len(text) + 1} : e >= s }
        end  == CHOOSE e \in ends : \A f \in ends : e <= f
    IN  SubSeq(text, s, end - 1)


\* Whether text begins with prefix.
StartsWith(text, prefix) ==
    Len(text) >= Len(prefix) /\ SubSeq(text, 1, Len(prefix)) = prefix

\* Where block i of the receipts begins in the payload, counted from 0: after
\* the blocks before it and the one line break that follows each.
RECURSIVE BlockOffset(_, _)
BlockOffset(receipts, i) ==
    IF i = 1
    THEN 0
    ELSE BlockOffset(receipts, i - 1) + Len(receiptToString(receipts[i - 1])) + 1

\* The payload is the receipts' blocks, one per receipt and in the receipts'
\* order, each followed by an empty line, and nothing else: it has as many
\* "Date: " lines as receipts, and one empty line after each block besides the
\* empty last line (a line is empty when it starts at a line break or past the
\* end of the text).
BlocksInOrder(text, receipts) ==
    LET n == Len(receipts)
    IN  /\ Len(text) = BlockOffset(receipts, n) + Len(receiptToString(receipts[n])) + 1
        /\ \A i \in 1..n :
               LET block == receiptToString(receipts[i])
                   from  == BlockOffset(receipts, i)
               IN  /\ SubSeq(text, from + 1, from + Len(block)) = block
                   /\ SubSeq(text, from + Len(block), from + Len(block) + 1) = "\n\n"
        /\ LET breaks == LineBreaks(text)
                starts == {1} \cup { i + 1 : i \in breaks }
           IN  /\ Cardinality({ s \in starts : /\ s + 5 <= Len(text)
                                                /\ SubSeq(text, s, s + 5) = "Date: " }) = n
               /\ Cardinality({ s \in starts : s \in breaks \/ s = Len(text) + 1 }) = n + 1

\* C6: an existing-purchases reply that finished without error with N >= 1
\* receipts raises existingPurchasesResponseSuccess whose text holds exactly N
\* receipt blocks, block i the formatted receipt i, consecutive blocks
\* separated by an empty line.
C6_ReceiptBlocksInOrder ==
    \A h \in DOMAIN replies :
        (/\ Handled(h)
         /\ replies[h].kind = "existingPurchases"
         /\ ~isError(h)
         /\ Len(value(h).purchases) > 0) =>
            /\ Len(SignalsOf(h)) = 1
            /\ SignalsOf(h)[1].signal = "existingPurchasesResponseSuccess"
            /\ BlocksInOrder(SignalsOf(h)[1].args.text, value(h).purchases)

\* An existing-purchases reply with two different receipts was handled.
C6_Witness ==
    /\ Len(emitted) = 1
    /\ replies[emitted[1].reply].kind = "existingPurchases"
    /\ ~isError(emitted[1].reply)
    /\ Len(value(emitted[1].reply).purchases) = 2
    /\ value(emitted[1].reply).purchases[1] # value(emitted[1].reply).purchases[2]

\* Whether text ends with suffix.
EndsWith(text, suffix) ==
    /\ Len(text) >= Len(suffix)
    /\ SubSeq(text, Len(text) - Len(suffix) + 1, Len(text)) = suffix

\* The text a date shows as in the Start/End field: "N/A" when it is absent,
\* its formatted value when it is present.
DateField(dt) == IF dt.isNull THEN "N/A" ELSE toString(dt)

\* C7: the formatted receipt has one Start/End line; it shows the start date
\* as "N/A" exactly when the start date is absent and as its formatted value
\* otherwise, and the same, independently, for the end date; with both absent
\* the field reads "N/A/N/A".
C7_AbsentDatesAreNA ==
    formatted.done =>
        LET text   == formatted.text
            r      == formatted.receipt
            starts == { s \in LineStarts(text) :
                            StartsWith(LineAt(text, s), "Start/End: ") }
        IN  /\ Cardinality(starts) = 1
            /\ \A s \in starts :
                   LET line == LineAt(text, s)
                   IN  /\ line = "Start/End: " \o DateField(r.startDate) \o "/"
                                     \o DateField(r.endDate)
                       /\ StartsWith(line, "Start/End: N/A/") <=> r.startDate.isNull
                       /\ EndsWith(line, "/N/A") <=> r.endDate.isNull
                       /\ (r.startDate.isNull /\ r.endDate.isNull)
                              => line = "Start/End: N/A/N/A"
                       /\ (~r.startDate.isNull /\ ~r.endDate.isNull)
                              => line = "Start/End: " \o toString(r.startDate) \o "/"
                                            \o toString(r.endDate)

\* A receipt with an absent start date and a present end date was formatted.
C7_Witness ==
    /\ formatted.done
    /\ formatted.receipt.startDate = NullDateTime
    /\ formatted.receipt.endDate = ValidDateTime(3)
    /\ formatted.text # ""

\* C8: a price, subscription-terms, subscription-status or cancel-subscription
\* reply that finished without error raises its kind's success signal with
\* the payment service's values unchanged: the price; the price, initial
\* period, renewal price and renewal period; isActive; isCanceled.
C8_PayloadUnchanged ==
    \A h \in DOMAIN replies :
        (Handled(h) /\ ~isError(h)) =>
            LET s == SignalsOf(h)[1]
                k == replies[h].kind
            IN  /\ k = "price" =>
                       /\ s.signal = "priceResponseSuccess"
                       /\ s.args = [price |-> value(h).price]
                /\ k = "subscriptionTerms" =>
                       /\ s.signal = "subscriptionTermsResponseSuccess"
                       /\ s.args.price = value(h).price
                       /\ s.args.initialPeriod = value(h).initialPeriod
                       /\ s.args.renewalPrice = value(h).renewalPrice
                       /\ s.args.renewalPeriod = value(h).renewalPeriod
                /\ k = "subscriptionStatus" =>
                       /\ s.signal = "checkStatusResponseSuccess"
                       /\ s.args = [isActive |-> value(h).isActive]
                /\ k = "cancelSubscription" =>
                       /\ s.signal = "cancelSubscriptionResponseSuccess"
                       /\ s.args = [isCanceled |-> value(h).isCanceled]

\* getPrice("item1", "sku1") was answered with "$0.99", and subscription terms
\* whose renewal price differs from the price were answered; both were raised.
C8_Witness ==
    /\ Len(emitted) = 2
    /\ replies[1].kind = "price"
    /\ replies[1].request = [id |-> "item1", sku |-> "sku1"]
    /\ replies[2].kind = "subscriptionTerms"
    /\ Handled(1) /\ Handled(2)
    /\ ~isError(1) /\ ~isError(2)
    /\ value(1).price = "$0.99"
    /\ value(2).price # value(2).renewalPrice

\* C9: the reply of a request is handed to deleteLater() once its completion
\* has been classified, on the error branch as on the success branch, and
\* not before the notification for the request was raised; a reply is
\* destroyed only after that, and every reply whose completion was handled
\* is destroyed in the end.
C9_ReleasedAfterNotification ==
    /\ [](\A h \in DOMAIN replies :
              /\ Handled(h) => replies[h].deleteLater
              /\ replies[h].deleteLater => (Handled(h) /\ Len(SignalsOf(h)) = 1)
              /\ replies[h].deleted => replies[h].deleteLater)
    /\ \A h \in Handles :
           (h \in DOMAIN replies /\ Handled(h))
               ~> (h \in DOMAIN replies /\ replies[h].deleted)

\* An errored reply and a successful reply were both released after their
\* notifications; the event loop has destroyed the first.
C9_Witness ==
    /\ Len(replies) = 2
    /\ isError(1) /\ replies[1].deleteLater /\ replies[1].deleted
    /\ ~isError(2) /\ replies[2].deleteLater /\ ~replies[2].deleted
    /\ Len(emitted) = 2

\* The notification a reply of a kind with a result raises when its request
\* is the only one in flight.
Alone(kind, result) ==
    IF result.isError
    THEN [signal |-> "infoResponseError",
          args |-> [code |-> result.errorCode, text |-> result.errorText]]
    ELSE CASE kind = "purchase" ->
                [signal |-> "purchaseResponseSuccess",
                 args |-> [text |-> receiptToString(result.value.receipt)]]
           [] kind = "existingPurchases" ->
                [signal |-> "existingPurchasesResponseSuccess",
                 args |-> [text |-> IF result.value.purchases = <<>>
                                    THEN "(No purchases)"
                                    ELSE appendReceipts("", result.value.purchases)]]
           [] kind = "price" ->
                [signal |-> "priceResponseSuccess",
                 args |-> [price |-> result.value.price]]
           [] kind = "subscriptionTerms" ->
                [signal |-> "subscriptionTermsResponseSuccess",
                 args |-> result.value]
           [] kind = "subscriptionStatus" ->
                [signal |-> "checkStatusResponseSuccess",
                 args |-> [isActive |-> result.value.isActive]]
           [] kind = "cancelSubscription" ->
                [signal |-> "cancelSubscriptionResponseSuccess",
                 args |-> [isCanceled |-> result.value.isCanceled]]

\* C10: with several requests in flight and their completions in any order,
\* the notification raised for a request is the one its own reply alone
\* determines: the signal and arguments it raises when it is the only
\* request in flight.
C10_ClassifiedByOwnReply ==
    \A i \in DOMAIN emitted :
        LET h == emitted[i].reply
        IN  [signal |-> emitted[i].signal, args |-> emitted[i].args]
                = Alone(replies[h].kind, replies[h].result)

\* A purchase and a price request were in flight together; the price request,
\* issued second, failed and was handled first, then the purchase succeeded.
C10_Witness ==
    /\ Len(replies) = 2
    /\ replies[1].kind = "purchase"
    /\ replies[2].kind = "price"
    /\ Len(emitted) = 2
    /\ emitted[1].reply = 2
    /\ emitted[1].signal = "infoResponseError"
    /\ emitted[2].reply = 1
    /\ emitted[2].signal = "purchaseResponseSuccess"

---------------------------------------------------------------------------
\* C11: once the slot has classified reply h and called deleteLater() on it,
\* no notification is raised from h any more: no step adds a signal emitted
\* for h, whatever h signals afterwards.
C11_NoFurtherNotification ==
    [][\A h \in DOMAIN replies :
           replies[h].deleteLater => SignalsOf(h)' = SignalsOf(h)]_vars

---------------------------------------------------------------------------
\* The success signal of a kind of request.
SuccessChannel(kind) ==
    CASE kind = "purchase"           -> "purchaseResponseSuccess"
      [] kind = "existingPurchases"  -> "existingPurchasesResponseSuccess"
      [] kind = "price"              -> "priceResponseSuccess"
      [] kind = "subscriptionTerms"  -> "subscriptionTermsResponseSuccess"
      [] kind = "subscriptionStatus" -> "checkStatusResponseSuccess"
      [] kind = "cancelSubscription" -> "cancelSubscriptionResponseSuccess"

\* The signals raised for reply h, as a set of signal names.
ChannelsOf(h) == { emitted[i].signal : i \in { j \in DOMAIN emitted : emitted[j].reply = h } }

\* C12: a handled completion has raised signals on exactly one channel, and
\* the channel follows from the reply's kind and error flag: infoResponseError
\* for an errored reply of any kind, the success signal of its own kind for a
\* successful one; a completion not handled yet has raised on none.
C12_OneChannelByKindAndError ==
    \A h \in DOMAIN replies :
        ChannelsOf(h) =
            IF ~Handled(h) THEN {}
            ELSE IF isError(h) THEN {"infoResponseError"}
            ELSE {SuccessChannel(replies[h].kind)}

\* A subscription-terms request failed and a subscription-status request
\* succeeded, both were handled: the first raised infoResponseError, the
\* second checkStatusResponseSuccess.
C12_Witness ==
    /\ Len(replies) = 2
    /\ replies[1].kind = "subscriptionTerms" /\ Handled(1) /\ isError(1)
    /\ replies[2].kind = "subscriptionStatus" /\ Handled(2) /\ ~isError(2)
    /\ ChannelsOf(1) = {"infoResponseError"}
    /\ ChannelsOf(2) = {"checkStatusResponseSuccess"}

---------------------------------------------------------------------------
\* C13: the adapter never retries.  A step hands at most one request to the
\* payment service; the step that does is a call that passed the check of its
\* id, it emits nothing, and the request is of the call's kind with the call's
\* arguments; a step of the completion handling (one that emits a signal, or
\* changes a reply already handed out) hands over none; a request once handed
\* over keeps its kind and arguments; and a call seen to pass the check hands
\* over its one request.  So the requests handed over are, one for one, the
\* calls that passed the check.
C13_NoRetry ==
    [][/\ Len(replies') \in {Len(replies), Len(replies) + 1}
       /\ \A h \in DOMAIN replies :
              /\ replies'[h].kind = replies[h].kind
              /\ replies'[h].request = replies[h].request
       /\ (emitted' # emitted \/ \E h \in DOMAIN replies : replies'[h] # replies[h])
              => Len(replies') = Len(replies)
       /\ Len(replies') = Len(replies) + 1
              => /\ emitted' = emitted
                 /\ ~EmptyIdCall(lastCall')
                 /\ replies'[Len(replies')].kind = KindOf(lastCall'.op)
                 /\ replies'[Len(replies')].request = lastCall'.args
       /\ (lastCall' # lastCall /\ ~EmptyIdCall(lastCall'))
              => Len(replies') = Len(replies) + 1
      ]_vars

\* Two subscription-terms requests were made, one failed and one succeeded,
\* both completions were handled and a call with an empty id was dropped
\* since: still two requests, each with its call's arguments.
C13_Witness ==
    /\ Len(replies) = 2
    /\ replies[1].kind = "subscriptionTerms" /\ Handled(1) /\ isError(1)
    /\ replies[2].kind = "subscriptionTerms" /\ Handled(2) /\ ~isError(2)
    /\ replies[1].request = [id |-> "item1", sku |-> "sku1"]
    /\ replies[2].request = [id |-> "item1", sku |-> "sku1"]
    /\ Len(emitted) = 2
    /\ lastCall = [op |-> "getSubscriptionTerms", args |-> [id |-> "", sku |-> "sku1"]]

---------------------------------------------------------------------------
\* C14: a request operation raises no notification itself.  The step of a
\* call emits nothing and leaves the request it made not finished, with its
\* slot connected; and every step that emits, emits one signal, for a reply
\* that was handed out in an earlier step and whose finished() the payment
\* service had emitted before the step.
C14_NotifiedOnlyOnCompletion ==
    [][/\ (lastCall' # lastCall \/ Len(replies') > Len(replies))
              => emitted' = emitted
       /\ Len(replies') > Len(replies)
              => /\ ~replies'[Len(replies')].finished
                 /\ ~replies'[Len(replies')].signalled
                 /\ replies'[Len(replies')].slot # ""
       /\ emitted' # emitted
              => /\ Len(emitted') = Len(emitted) + 1
                 /\ SubSeq(emitted', 1, Len(emitted)) = emitted
                 /\ LET h == emitted'[Len(emitted')].reply
                    IN  /\ h \in DOMAIN replies
                        /\ replies[h].finished
                        /\ replies[h].signalled
      ]_vars

\* A price request was made, completed and notified; a second one has been
\* made since and is not completed: nothing has been raised for it.
C14_Witness ==
    /\ Len(replies) = 2
    /\ replies[1].kind = "price" /\ Handled(1)
    /\ replies[2].kind = "price" /\ ~replies[2].finished
    /\ Len(emitted) = 1
    /\ emitted[1].reply = 1

---------------------------------------------------------------------------
\* C15: getExisting(refresh) makes its request whatever refresh is.  Every
\* step of a getExisting call hands exactly one request to the payment
\* service, an existing-purchases request carrying the call's refresh flag
\* and connected to existingPurchasesResponse, leaves the earlier requests as
\* they were and emits nothing.
C15_GetExistingUnconditional ==
    [][(/\ lastCall'.op = "getExisting"
        /\ (lastCall' # lastCall \/ Len(replies') > Len(replies)))
           => /\ Len(replies') = Len(replies) + 1
              /\ SubSeq(replies', 1, Len(replies)) = replies
              /\ replies'[Len(replies')].kind = "existingPurchases"
              /\ replies'[Len(replies')].request = [refresh |-> lastCall'.args.refresh]
              /\ replies'[Len(replies')].slot = "existingPurchasesResponse"
              /\ emitted' = emitted
      ]_vars

\* getExisting(true) and then getExisting(false) were called: two
\* existing-purchases requests, the first with refresh, the second without.
C15_Witness ==
    /\ Len(replies) = 2
    /\ replies[1].kind = "existingPurchases"
    /\ replies[1].request = [refresh |-> TRUE]
    /\ replies[2].kind = "existingPurchases"
    /\ replies[2].request = [refresh |-> FALSE]
    /\ lastCall = [op |-> "getExisting", args |-> [refresh |-> FALSE]]

---------------------------------------------------------------------------
\* Line n of a text, counted from 1 (the text has at least n lines).
LineNo(text, n) ==
    LET starts == LineStarts(text)
        s      == CHOOSE t \in starts : Cardinality({ u \in starts : u < t }) = n - 1
    IN  LineAt(text, s)

\* C16: the text receiptToString returns for a receipt has seven lines, each
\* ended by a line break, and they are, in this order: the purchase date, the
\* digital good's id and sku, the purchase id and license key, the metadata,
\* the item state's number and the subscription flag, the start and end date,
\* and the initial period; formatting the receipt again gives the same text.
C16_FixedLayout ==
    formatted.done =>
        LET text == formatted.text
            r    == formatted.receipt
        IN  /\ Cardinality(LineBreaks(text)) = 7
            /\ EndsWith(text, "\n")
            /\ LineNo(text, 1) = "Date: " \o toString(r.date)
            /\ LineNo(text, 2) = "ID/SKU: " \o r.digitalGoodId \o "/" \o r.digitalGoodSku
            /\ LineNo(text, 3) = "PurchaseID/licenseKey: " \o r.purchaseId \o "/"
                                     \o r.licenseKey
            /\ LineNo(text, 4) = "Metadata: " \o r.purchaseMetadata
            /\ LineNo(text, 5) = "ItemState/isSubscription?: " \o number(r.state) \o "/"
                                     \o (IF r.isSubscription THEN "true" ELSE "false")
            /\ LineNo(text, 6) = "Start/End: " \o DateField(r.startDate) \o "/"
                                     \o DateField(r.endDate)
            /\ LineNo(text, 7) = "InitialPeriod: " \o number(r.initialPeriod)
            /\ LineNo(text, 8) = ""
            /\ receiptToString(r) = text

\* A subscription receipt with a start date, an end date and an initial
\* period of 30 was formatted: its last line reads "InitialPeriod: 30".
C16_Witness ==
    /\ formatted.done
    /\ formatted.receipt = Receipt(ValidDateTime(1), "sku1", TRUE,
                                   ValidDateTime(2), ValidDateTime(3), 30)
    /\ LineNo(formatted.text, 1) = "Date: Thu Jan 1 00:00:01 1970"
    /\ LineNo(formatted.text, 4) = "Metadata: {}"
    /\ LineNo(formatted.text, 7) = "InitialPeriod: 30"

---------------------------------------------------------------------------
\* The text of the one signal raised for reply h.
TextOf(h) == SignalsOf(h)[1].args.text

\* Reply h of the kind finished without error and its completion was handled.
Succeeded(h, kind) ==
    /\ replies[h].kind = kind
    /\ Handled(h)
    /\ ~isError(h)

\* The formatted receipts of a list one after the other, each followed by a
\* line break.
RECURSIVE Joined(_)
Joined(receipts) ==
    IF receipts = <<>>
    THEN ""
    ELSE receiptToString(Head(receipts)) \o "\n" \o Joined(Tail(receipts))

\* C17: purchase and existing purchases show a receipt in the same format.  A
\* successful purchase raises the formatted text of its receipt; a successful
\* existing-purchases reply with a non-empty list raises the formatted text
\* of each receipt, in list order, each followed by a line break, the last
\* one too; so when the list is the one receipt of a successful purchase, its
\* text is the purchase's text and one more line break.
C17_SameReceiptFormat ==
    /\ \A p \in DOMAIN replies :
           Succeeded(p, "purchase") =>
               /\ Len(SignalsOf(p)) = 1
               /\ TextOf(p) = receiptToString(value(p).receipt)
    /\ \A e \in DOMAIN replies :
           (Succeeded(e, "existingPurchases") /\ value(e).purchases # <<>>) =>
               /\ Len(SignalsOf(e)) = 1
               /\ TextOf(e) = Joined(value(e).purchases)
               /\ EndsWith(TextOf(e),
                           receiptToString(value(e).purchases[Len(value(e).purchases)])
                               \o "\n")
    /\ \A p \in DOMAIN replies, e \in DOMAIN replies :
           (/\ Succeeded(p, "purchase")
            /\ Succeeded(e, "existingPurchases")
            /\ value(e).purchases = <<value(p).receipt>>) =>
               TextOf(e) = TextOf(p) \o "\n"

\* A purchase succeeded with a receipt and an existing-purchases request
\* succeeded with that receipt as its whole list: the second text is the
\* first and a line break.
C17_Witness ==
    /\ Len(replies) = 2
    /\ Succeeded(1, "purchase")
    /\ Succeeded(2, "existingPurchases")
    /\ value(2).purchases = <<value(1).receipt>>
    /\ Len(emitted) = 2
    /\ emitted[2].args.text = emitted[1].args.text \o "\n"

=============================================================================
